---- MODULE Spec2Model ----
(***************************************************************************)
(* Model of mio::detail::mmap (include/mio/detail/mmap_impl.ipp), POSIX    *)
(* backend: a region object holding at most one OS mapping of a file,      *)
(* together with the part of the operating system it talks to (descriptor  *)
(* table, mappings, the calls issued).                                     *)
(***************************************************************************)
EXTENDS Integers, Sequences, FiniteSets, TLC

\* ---------------------------------------------------------------- bounds
NumRegions == 2          \* region objects that can ever be constructed
NumUserHandles == 1      \* descriptors the caller opened itself
MaxOpens == 2            \* descriptors ::open can hand out before EMFILE
MaxMaps == 2             \* mappings ::mmap can hand out before ENOMEM (Spec)
MaxMapsOne == 1          \* the same, in the specification of one region (SpecMap)
PageSize == 2            \* sysconf(_SC_PAGE_SIZE)
MaxOffset == 3           \* offsets passed to map are 0..MaxOffset
MaxLen == 2              \* lengths passed to map are -1..MaxLen
SizeA == 4               \* size of file "a", which the regions open by path
SizeB == 2               \* size of file "b", which the caller's descriptors refer to

INVALID_HANDLE_VALUE == -1

Regions == 1..NumRegions
UserHandles == 1..NumUserHandles
OwnHandles == (NumUserHandles + 1)..(NumUserHandles + MaxOpens)
Handles == UserHandles \cup OwnHandles

\* Arguments of map in the specification of one region (SpecMap) ...
Paths == {"", "a"}
Offsets == 0..MaxOffset
Lengths == (-1)..MaxLen
Modes == {"read_only", "read_write"}
MapModes == {"read_write"}
\* Handle values a caller passes: the invalid sentinel and its own descriptors.
CallerHandles == {INVALID_HANDLE_VALUE} \cup UserHandles
\* ... and in the specification of several regions (Spec): an unaligned
\* offset; a length inside both files and one beyond them.
LifePaths == {"", "a"}
LifeOffsets == {1}
LifeLengths == {1, SizeA}
LifeModes == {"read_write"}

FileSize(path) == IF path = "a" THEN SizeA ELSE SizeB

\* ------------------------------------------------------ values of the code

\* A pointer is a mapping id and a byte offset from the address ::mmap
\* returned for that mapping.
nullptr == [m |-> 0, off |-> 0]
MAP_FAILED == [m |-> -1, off |-> 0]
PtrAdd(p, n) == [m |-> p.m, off |-> p.off + n]

\* std::error_code: a value and a category.
NoError == [val |-> "0", cat |-> "system"]
make_error_code(errc) == [val |-> errc, cat |-> "generic"]
SystemError(errno) == [val |-> errno, cat |-> "system"]

\* One OS call as issued, with its result.
Call(c, path, fd, addr, len, off, flag, res) ==
    [call |-> c, path |-> path, fd |-> fd, addr |-> addr, len |-> len,
     off |-> off, flag |-> flag, res |-> res]

\* The calls named c among the calls cs, and the one there is of them.
CallsOf(cs, c) == {i \in DOMAIN cs : cs[i].call = c}
Issued(cs, c) == CallsOf(cs, c) # {}
TheCall(cs, c) == cs[CHOOSE i \in CallsOf(cs, c) : TRUE]

VARIABLES
    regs,      \* regs[r]: the fields of region r and whether it is alive
    fds,       \* OS descriptor table: fds[h] = [st, path]
    maps,      \* OS mappings created so far: maps[m] = [fd, off, len]
    closes,    \* closes[h]: number of ::close calls issued on h
    unmaps,    \* unmaps[m]: number of ::munmap calls issued on mapping m
    op,        \* the last call on a region and its arguments
    error,     \* the error slot handed to the last fallible call
    calls,     \* the OS calls the last call issued, in order
    mapLimit   \* number of mappings the OS grants before ENOMEM

vars == <<regs, fds, maps, closes, unmaps, op, error, calls, mapLimit>>

\* The state a called member function works on: its own object (me), the
\* caller's error slot, the OS, and the return value / errno of the last OS call.
World(r) ==
    [me |-> regs[r], error |-> error, calls |-> <<>>, fds |-> fds,
     maps |-> maps, closes |-> closes, unmaps |-> unmaps,
     ret |-> 0, errno |-> "0"]

\* ------------------------------------------------------------ OS primitives
FdIsOpen(w, fd) == fd \in Handles /\ w.fds[fd].st = "open"
FreeHandles(w) == {h \in OwnHandles : w.fds[h].st = "free"}
LowestFree(w) == CHOOSE h \in FreeHandles(w) : \A g \in FreeHandles(w) : h <= g

\* ::open(path, flag); want is what the OS would answer if a descriptor is free.
os_open(w, path, flag, want) ==
    LET res == IF FreeHandles(w) = {} THEN "EMFILE" ELSE want
        fd == IF res = "ok" THEN LowestFree(w) ELSE INVALID_HANDLE_VALUE
    IN  [w EXCEPT !.calls = Append(@, Call("open", path, fd, nullptr, 0, 0, flag, res)),
                  !.fds = IF res = "ok"
                          THEN [@ EXCEPT ![fd] = [st |-> "open", path |-> path]]
                          ELSE @,
                  !.ret = fd,
                  !.errno = IF res = "ok" THEN @ ELSE res]

\* ::fstat(fd, &sbuf); the call record keeps st_size in len.
os_fstat(w, fd, want) ==
    LET res == IF ~FdIsOpen(w, fd) THEN "EBADF" ELSE want
        size == IF res = "ok" THEN FileSize(w.fds[fd].path) ELSE 0
    IN  [w EXCEPT !.calls = Append(@, Call("fstat", "", fd, nullptr, size, 0, "", res)),
                  !.ret = IF res = "ok" THEN size ELSE -1,
                  !.errno = IF res = "ok" THEN @ ELSE res]

\* ::mmap(0, len, prot, MAP_SHARED, fd, off)
os_mmap(w, len, prot, fd, off, want) ==
    LET res == IF len <= 0 \/ off % PageSize # 0 THEN "EINVAL"
               ELSE IF ~FdIsOpen(w, fd) THEN "EBADF"
               ELSE IF Len(w.maps) >= mapLimit THEN "ENOMEM"
               ELSE want
        id == Len(w.maps) + 1
        addr == IF res = "ok" THEN [m |-> id, off |-> 0] ELSE MAP_FAILED
    IN  [w EXCEPT !.calls = Append(@, Call("mmap", "", fd, addr, len, off, prot, res)),
                  !.maps = IF res = "ok"
                           THEN Append(@, [fd |-> fd, off |-> off, len |-> len])
                           ELSE @,
                  !.ret = addr,
                  !.errno = IF res = "ok" THEN @ ELSE res]

\* What the OS keeps of a mapping that was released.
Released == [fd |-> INVALID_HANDLE_VALUE, off |-> 0, len |-> 0]

\* ::munmap(addr, len): addresses a mapping when given its start and length
\* (once released, any length reaches the same pages again), and releases it
\* unless the OS refuses.
os_munmap(w, addr, len, want) ==
    LET hit == /\ addr.m \in 1..Len(w.maps)
               /\ addr.off = 0
               /\ w.maps[addr.m] # Released => len = w.maps[addr.m].len
        res == IF hit THEN want ELSE "EINVAL"
    IN  [w EXCEPT !.calls = Append(@, Call("munmap", "", INVALID_HANDLE_VALUE, addr, len, 0, "", res)),
                  !.maps = IF res = "ok" THEN [@ EXCEPT ![addr.m] = Released] ELSE @,
                  !.unmaps = IF hit THEN [@ EXCEPT ![addr.m] = @ + 1] ELSE @,
                  !.errno = IF res = "ok" THEN @ ELSE res]

\* ::close(fd): the descriptor is gone afterwards even when the call reports
\* an error (EIO).
os_close(w, fd, want) ==
    LET res == IF FdIsOpen(w, fd) THEN want ELSE "EBADF"
    IN  [w EXCEPT !.calls = Append(@, Call("close", "", fd, nullptr, 0, 0, "", res)),
                  !.fds = IF FdIsOpen(w, fd)
                          THEN [@ EXCEPT ![fd] = [st |-> "closed", path |-> ""]]
                          ELSE @,
                  !.closes = IF fd \in Handles THEN [@ EXCEPT ![fd] = @ + 1] ELSE @,
                  !.errno = IF res = "ok" THEN @ ELSE res]

\* ::msync(addr, len, MS_SYNC)
os_msync(w, addr, len, want) ==
    LET hit == addr.m \in 1..Len(w.maps) /\ addr.off = 0 /\ w.maps[addr.m] # Released
        res == IF ~hit THEN "ENOMEM" ELSE want
    IN  [w EXCEPT !.calls = Append(@, Call("msync", "", INVALID_HANDLE_VALUE, addr, len, 0, "", res)),
                  !.ret = IF res = "ok" THEN 0 ELSE -1,
                  !.errno = IF res = "ok" THEN @ ELSE res]

\* -------------------------------------------------------- helpers of the code
\* Rounding up to the next page boundary instead of down.
make_page_aligned_up(offset) == ((offset + PageSize - 1) \div PageSize) * PageSize

make_page_aligned(offset) == (offset \div PageSize) * PageSize

last_error(w) == SystemError(w.errno)

OpenFlag(mode) == IF mode = "read_only" THEN "O_RDONLY" ELSE "O_RDWR"
Prot(mode) == IF mode = "read_only" THEN "PROT_READ" ELSE "PROT_WRITE"

\* open_file that returns the invalid handle without reporting why.
open_file_no_error(w, path, mode, want) ==
    LET w0 == [w EXCEPT !.error = NoError]
    IN  IF path = ""
        THEN [w0 EXCEPT !.error = make_error_code("invalid_argument"),
                        !.ret = INVALID_HANDLE_VALUE]
        ELSE os_open(w0, path, OpenFlag(mode), want)

open_file(w, path, mode, want) ==
    LET w0 == [w EXCEPT !.error = NoError]
    IN  IF path = ""
        THEN [w0 EXCEPT !.error = make_error_code("invalid_argument"),
                        !.ret = INVALID_HANDLE_VALUE]
        ELSE LET w1 == os_open(w0, path, OpenFlag(mode), want)
             IN  IF w1.ret = INVALID_HANDLE_VALUE
                 THEN [w1 EXCEPT !.error = last_error(w1)]
                 ELSE w1

query_file_size(w, handle, want) ==
    LET w0 == [w EXCEPT !.error = NoError]
        w1 == os_fstat(w0, handle, want)
    IN  IF w1.ret = -1
        THEN [w1 EXCEPT !.error = last_error(w1), !.ret = 0]
        ELSE w1

is_open(reg) == reg.file_handle_ # INVALID_HANDLE_VALUE
is_mapped(reg) == is_open(reg)

get_mapping_start(reg) ==
    IF reg.data_ = nullptr THEN nullptr
    ELSE LET offset == reg.mapped_length_ - reg.length_
         IN  PtrAdd(reg.data_, 0 - offset)

\* ------------------------------------------------------------ mmap members
\* map(offset, ...) that lets data point at the start of the OS mapping.
map_impl_data_at_start(w, offset, length, mode, mmapWant) ==
    LET aligned_offset == make_page_aligned(offset)
        length_to_map == offset - aligned_offset + length
        w1 == os_mmap(w, length_to_map, Prot(mode), w.me.file_handle_,
                      aligned_offset, mmapWant)
        mapping_start == w1.ret
    IN  IF mapping_start = MAP_FAILED
        THEN [w1 EXCEPT !.error = last_error(w1)]
        ELSE [w1 EXCEPT !.me.data_ = mapping_start,
                        !.me.length_ = length,
                        !.me.mapped_length_ = length_to_map]

\* mmap::map(offset, length, mode, error): the OS mapping call and, on
\* success, the three assignments.
map_impl(w, offset, length, mode, mmapWant) ==
    LET aligned_offset == make_page_aligned(offset)
        length_to_map == offset - aligned_offset + length
        w1 == os_mmap(w, length_to_map, Prot(mode), w.me.file_handle_,
                      aligned_offset, mmapWant)
        mapping_start == w1.ret
    IN  IF mapping_start = MAP_FAILED
        THEN [w1 EXCEPT !.error = last_error(w1)]
        ELSE [w1 EXCEPT !.me.data_ = PtrAdd(PtrAdd(mapping_start, offset), 0 - aligned_offset),
                        !.me.length_ = length,
                        !.me.mapped_length_ = length_to_map]

\* map(handle, ...) that does not look at the handle before using it.
map_handle_unchecked(w, handle, offset, length, mode, statWant, mmapWant) ==
    LET w0 == [w EXCEPT !.error = NoError]
        w1 == query_file_size(w0, handle, statWant)
        file_size == w1.ret
        w2 == [w1 EXCEPT !.me.file_handle_ = handle,
                         !.me.is_handle_internal_ = FALSE]
    IN  IF w1.error # NoError THEN w1
        ELSE IF length <= 0
             THEN map_impl(w2, offset, file_size, mode, mmapWant)
        ELSE IF offset + length > file_size
             THEN [w1 EXCEPT !.error = make_error_code("invalid_argument")]
        ELSE map_impl(w2, offset, length, mode, mmapWant)

\* map(handle, ...) that checks the length alone against the file size.
map_handle_length_only(w, handle, offset, length, mode, statWant, mmapWant) ==
    LET w0 == [w EXCEPT !.error = NoError]
    IN  IF handle = INVALID_HANDLE_VALUE
        THEN [w0 EXCEPT !.error = make_error_code("bad_file_descriptor")]
        ELSE LET w1 == query_file_size(w0, handle, statWant)
                 file_size == w1.ret
                 w2 == [w1 EXCEPT !.me.file_handle_ = handle,
                                  !.me.is_handle_internal_ = FALSE]
             IN  IF w1.error # NoError THEN w1
                 ELSE IF length <= 0
                      THEN map_impl(w2, offset, file_size, mode, mmapWant)
                 ELSE IF length > file_size
                      THEN [w1 EXCEPT !.error = make_error_code("invalid_argument")]
                 ELSE map_impl(w2, offset, length, mode, mmapWant)

\* map(handle, ...) that leaves the ownership flag as it finds it.
map_handle_keeps_flag(w, handle, offset, length, mode, statWant, mmapWant) ==
    LET w0 == [w EXCEPT !.error = NoError]
    IN  IF handle = INVALID_HANDLE_VALUE
        THEN [w0 EXCEPT !.error = make_error_code("bad_file_descriptor")]
        ELSE LET w1 == query_file_size(w0, handle, statWant)
                 file_size == w1.ret
                 w2 == [w1 EXCEPT !.me.file_handle_ = handle]
             IN  IF w1.error # NoError THEN w1
                 ELSE IF length <= 0
                      THEN map_impl(w2, offset, file_size, mode, mmapWant)
                 ELSE IF offset + length > file_size
                      THEN [w1 EXCEPT !.error = make_error_code("invalid_argument")]
                 ELSE map_impl(w2, offset, length, mode, mmapWant)

\* mmap::map(handle, offset, length, mode, error)
map_handle(w, handle, offset, length, mode, statWant, mmapWant) ==
    LET w0 == [w EXCEPT !.error = NoError]
    IN  IF handle = INVALID_HANDLE_VALUE
        THEN [w0 EXCEPT !.error = make_error_code("bad_file_descriptor")]
        ELSE LET w1 == query_file_size(w0, handle, statWant)
                 file_size == w1.ret
                 w2 == [w1 EXCEPT !.me.file_handle_ = handle,
                                  !.me.is_handle_internal_ = FALSE]
             IN  IF w1.error # NoError THEN w1
                 ELSE IF length <= 0
                      THEN map_impl(w2, offset, file_size, mode, mmapWant)
                 ELSE IF offset + length > file_size
                      THEN [w1 EXCEPT !.error = make_error_code("invalid_argument")]
                 ELSE map_impl(w2, offset, length, mode, mmapWant)

\* map(path, ...) that opens and maps the file whether or not the region is
\* already open.
map_path_always_opens(w, path, offset, length, mode, openWant, statWant, mmapWant) ==
    LET w0 == [w EXCEPT !.error = NoError]
    IN  IF path = ""
        THEN [w0 EXCEPT !.error = make_error_code("invalid_argument")]
        ELSE LET w1 == open_file(w0, path, mode, openWant)
                 handle == w1.ret
                 w2 == map_handle(w1, handle, offset, length, mode, statWant, mmapWant)
             IN  IF w1.error # NoError THEN w1
                 ELSE [w2 EXCEPT !.me.is_handle_internal_ = TRUE]

\* mmap::map(path, offset, length, mode, error)
map_path(w, path, offset, length, mode, openWant, statWant, mmapWant) ==
    LET w0 == [w EXCEPT !.error = NoError]
    IN  IF path = ""
        THEN [w0 EXCEPT !.error = make_error_code("invalid_argument")]
        ELSE IF is_open(w0.me) THEN w0
        ELSE LET w1 == open_file(w0, path, mode, openWant)
                 handle == w1.ret
                 w2 == map_handle(w1, handle, offset, length, mode, statWant, mmapWant)
             IN  IF w1.error # NoError THEN w1
                 ELSE [w2 EXCEPT !.me.is_handle_internal_ = TRUE]

\* sync that flushes from data() over length instead of the mapped span.
sync_from_data(w, msyncWant) ==
    LET w0 == [w EXCEPT !.error = NoError]
    IN  IF ~is_open(w0.me)
        THEN [w0 EXCEPT !.error = make_error_code("bad_file_descriptor")]
        ELSE IF w0.me.data_ # nullptr
        THEN LET w1 == os_msync(w0, w0.me.data_, w0.me.length_, msyncWant)
             IN  IF w1.ret # 0 THEN [w1 EXCEPT !.error = last_error(w1)] ELSE w1
        ELSE w0

\* mmap::sync(error)
sync(w, msyncWant) ==
    LET w0 == [w EXCEPT !.error = NoError]
    IN  IF ~is_open(w0.me)
        THEN [w0 EXCEPT !.error = make_error_code("bad_file_descriptor")]
        ELSE IF w0.me.data_ # nullptr
        THEN LET w1 == os_msync(w0, get_mapping_start(w0.me), w0.me.mapped_length_, msyncWant)
             IN  IF w1.ret # 0 THEN [w1 EXCEPT !.error = last_error(w1)] ELSE w1
        ELSE w0

\* unmap that resets the file handle only when ::close went through.
unmap_reset_on_success(w, munmapWant, closeWant) ==
    IF ~is_open(w.me) THEN w
    ELSE LET w1 == IF w.me.data_ # nullptr
                   THEN os_munmap(w, get_mapping_start(w.me), w.me.mapped_length_,
                                  munmapWant)
                   ELSE w
             w2 == IF w1.me.is_handle_internal_
                   THEN os_close(w1, w1.me.file_handle_, closeWant)
                   ELSE w1
             closed == ~Issued(w2.calls, "close") \/ TheCall(w2.calls, "close").res = "ok"
         IN  [w2 EXCEPT !.me.data_ = nullptr,
                        !.me.length_ = 0,
                        !.me.mapped_length_ = 0,
                        !.me.file_handle_ = IF closed THEN INVALID_HANDLE_VALUE ELSE @]

\* mmap::unmap()
unmap(w, munmapWant, closeWant) ==
    IF ~is_open(w.me) THEN w
    ELSE LET w1 == IF w.me.data_ # nullptr
                   THEN os_munmap(w, get_mapping_start(w.me), w.me.mapped_length_,
                                  munmapWant)
                   ELSE w
             w2 == IF w1.me.is_handle_internal_
                   THEN os_close(w1, w1.me.file_handle_, closeWant)
                   ELSE w1
         IN  [w2 EXCEPT !.me.data_ = nullptr,
                        !.me.length_ = 0,
                        !.me.mapped_length_ = 0,
                        !.me.file_handle_ = INVALID_HANDLE_VALUE]

\* A move constructor that forgets to reset the source.
MovedFromNotReset(other) == other

\* The state of `other` after mmap::mmap(mmap&&) has taken its fields.
MovedFromByConstructor(other) ==
    [other EXCEPT !.data_ = nullptr,
                  !.length_ = 0,
                  !.mapped_length_ = 0,
                  !.file_handle_ = INVALID_HANDLE_VALUE]

\* The state of `other` after mmap::operator=(mmap&&) has taken its fields.
MovedFromByAssignment(other) ==
    [other EXCEPT !.data_ = nullptr,
                  !.length_ = 0,
                  !.mapped_length_ = 0,
                  !.file_handle_ = INVALID_HANDLE_VALUE,
                  !.is_handle_internal_ = FALSE]

\* A move that takes every field but the ownership flag.
TakenFromWithoutFlag(other) ==
    [other EXCEPT !.life = "alive", !.is_handle_internal_ = FALSE]

\* The fields std::move hands from `other` to the destination.
TakenFrom(other) == [other EXCEPT !.life = "alive"]

\* A swap that exchanges every field but the ownership flag.
swap_without_flag(rs, r, other) ==
    IF r # other
    THEN [rs EXCEPT ![r] = [rs[other] EXCEPT !.is_handle_internal_ = rs[r].is_handle_internal_],
                    ![other] = [rs[r] EXCEPT !.is_handle_internal_ = rs[other].is_handle_internal_]]
    ELSE rs

\* mmap::swap(other): the regions after this = rs[r] and rs[other] swapped.
swap(rs, r, other) ==
    IF r # other
    THEN [rs EXCEPT ![r] = rs[other], ![other] = rs[r]]
    ELSE rs

\* ------------------------------------------------------------------ state
\* A default-constructed region; the constructor leaves the ownership flag
\* to the caller of this operator.
EmptyRegion(flag) ==
    [life |-> "alive", data_ |-> nullptr, length_ |-> 0, mapped_length_ |-> 0,
     file_handle_ |-> INVALID_HANDLE_VALUE, is_handle_internal_ |-> flag]

Unborn == [EmptyRegion(FALSE) EXCEPT !.life = "unborn"]

Op(name, r, other, path, handle, offset, length, mode) ==
    [name |-> name, r |-> r, other |-> other, path |-> path, handle |-> handle,
     offset |-> offset, length |-> length, mode |-> mode]

Alive(r) == regs[r].life = "alive"

Init ==
    /\ regs = [r \in Regions |-> Unborn]
    /\ fds = [h \in Handles |->
                IF h \in UserHandles
                THEN [st |-> "open", path |-> "b"]
                ELSE [st |-> "free", path |-> ""]]
    /\ maps = <<>>
    /\ closes = [h \in Handles |-> 0]
    /\ unmaps = [m \in 1..MaxMaps |-> 0]
    /\ op = Op("none", 0, 0, "", INVALID_HANDLE_VALUE, 0, 0, "")
    /\ error = NoError
    /\ calls = <<>>
    /\ mapLimit = MaxMaps

\* Writes back what a member function of region r left behind.
Return(r, w, o) ==
    /\ regs' = [regs EXCEPT ![r] = w.me]
    /\ fds' = w.fds
    /\ maps' = w.maps
    /\ closes' = w.closes
    /\ unmaps' = w.unmaps
    /\ error' = w.error
    /\ calls' = w.calls
    /\ op' = o
    /\ UNCHANGED mapLimit

\* The OS call that the environment lets fail during one map call, if any.
OpenWant(fail) == IF fail = "open" THEN "ENOENT" ELSE "ok"
StatWant(fail) == IF fail = "fstat" THEN "EIO" ELSE "ok"
MmapWant(fail) == IF fail = "mmap" THEN "ENOMEM" ELSE "ok"
\* ... and during one teardown.
TeardownFails == {"none", "munmap", "close"}
LifeTeardownFails == {"none", "close"}
MunmapWant(fail) == IF fail = "munmap" THEN "ENOMEM" ELSE "ok"
CloseWant(fail) == IF fail = "close" THEN "EIO" ELSE "ok"

\* mmap::mmap()
Construct(r) ==
    /\ regs[r].life = "unborn"
    /\ regs' = [regs EXCEPT ![r] = EmptyRegion(FALSE)]
    /\ op' = Op("construct", r, 0, "", INVALID_HANDLE_VALUE, 0, 0, "")
    /\ calls' = <<>>
    /\ UNCHANGED <<fds, maps, closes, unmaps, error, mapLimit>>

\* mmap::mmap(mmap&& other)
MoveConstruct(r, other) ==
    /\ regs[r].life = "unborn"
    /\ Alive(other)
    /\ regs' = [regs EXCEPT ![r] = TakenFrom(regs[other]),
                            ![other] = MovedFromByConstructor(regs[other])]
    /\ op' = Op("move_construct", r, other, "", INVALID_HANDLE_VALUE, 0, 0, "")
    /\ calls' = <<>>
    /\ UNCHANGED <<fds, maps, closes, unmaps, error, mapLimit>>

\* A move assignment that takes the fields of `other` without unmapping
\* what the destination holds.
MoveAssignWithoutUnmap(r, other, fails) ==
    /\ Alive(r)
    /\ Alive(other)
    /\ fails # {}
    /\ regs' = IF r # other
               THEN [regs EXCEPT ![r] = TakenFrom(regs[other]),
                                 ![other] = MovedFromByAssignment(regs[other])]
               ELSE regs
    /\ op' = Op("move_assign", r, other, "", INVALID_HANDLE_VALUE, 0, 0, "")
    /\ calls' = <<>>
    /\ UNCHANGED <<fds, maps, closes, unmaps, error, mapLimit>>

\* mmap::operator=(mmap&& other)
MoveAssign(r, other, fails) ==
    /\ Alive(r)
    /\ Alive(other)
    /\ \E fail \in fails :
       LET w == unmap(World(r), MunmapWant(fail), CloseWant(fail))
           o == Op("move_assign", r, other, "", INVALID_HANDLE_VALUE, 0, 0, "")
       IN  IF r # other
           THEN /\ regs' = [regs EXCEPT ![r] = TakenFrom(regs[other]),
                                        ![other] = MovedFromByAssignment(regs[other])]
                /\ fds' = w.fds
                /\ maps' = w.maps
                /\ closes' = w.closes
                /\ unmaps' = w.unmaps
                /\ calls' = w.calls
                /\ op' = o
                /\ UNCHANGED <<error, mapLimit>>
           ELSE /\ op' = o
                /\ calls' = <<>>
                /\ UNCHANGED <<regs, fds, maps, closes, unmaps, error, mapLimit>>

\* mmap::map(path, offset, length, mode, error)
MapPath(r, paths, offsets, lengths, modes) ==
    /\ Alive(r)
    /\ \E path \in paths, offset \in offsets, length \in lengths, mode \in modes,
          fail \in {"none", "open", "fstat", "mmap"} :
         Return(r, map_path(World(r), path, offset, length, mode,
                            OpenWant(fail), StatWant(fail), MmapWant(fail)),
                Op("map_path", r, 0, path, INVALID_HANDLE_VALUE, offset, length, mode))

\* mmap::map(handle, offset, length, mode, error)
MapHandle(r, handles, offsets, lengths, modes) ==
    /\ Alive(r)
    /\ \E handle \in handles, offset \in offsets, length \in lengths,
          mode \in modes, fail \in {"none", "fstat", "mmap"} :
         Return(r, map_handle(World(r), handle, offset, length, mode,
                              StatWant(fail), MmapWant(fail)),
                Op("map_handle", r, 0, "", handle, offset, length, mode))

\* mmap::sync(error)
Sync(r) ==
    /\ Alive(r)
    /\ \E msyncWant \in {"ok", "EIO"} :
         Return(r, sync(World(r), msyncWant),
                Op("sync", r, 0, "", INVALID_HANDLE_VALUE, 0, 0, ""))

\* mmap::unmap()
Unmap(r, fails) ==
    /\ Alive(r)
    /\ \E fail \in fails :
         Return(r, unmap(World(r), MunmapWant(fail), CloseWant(fail)),
                Op("unmap", r, 0, "", INVALID_HANDLE_VALUE, 0, 0, ""))

\* mmap::swap(other)
Swap(r, other) ==
    /\ Alive(r)
    /\ Alive(other)
    /\ regs' = swap(regs, r, other)
    /\ op' = Op("swap", r, other, "", INVALID_HANDLE_VALUE, 0, 0, "")
    /\ calls' = <<>>
    /\ UNCHANGED <<fds, maps, closes, unmaps, error, mapLimit>>

\* mmap::~mmap()
Destroy(r, fails) ==
    /\ Alive(r)
    /\ \E fail \in fails :
       LET w == unmap(World(r), MunmapWant(fail), CloseWant(fail))
       IN  Return(r, [w EXCEPT !.me.life = "dead"],
                  Op("destroy", r, 0, "", INVALID_HANDLE_VALUE, 0, 0, ""))

Next ==
    \/ \E r \in Regions : Construct(r)
    \/ \E r \in Regions, other \in Regions : MoveConstruct(r, other)
    \/ \E r \in Regions, other \in Regions : MoveAssign(r, other, LifeTeardownFails)
    \/ \E r \in Regions : MapPath(r, LifePaths, LifeOffsets, LifeLengths, LifeModes)
    \/ \E r \in Regions : MapHandle(r, CallerHandles, LifeOffsets, LifeLengths, LifeModes)
    \/ \E r \in Regions : Sync(r)
    \/ \E r \in Regions : Unmap(r, LifeTeardownFails)
    \/ \E r \in Regions, other \in Regions : Swap(r, other)
    \/ \E r \in Regions : Destroy(r, LifeTeardownFails)

Spec == Init /\ [][Next]_vars

\* One region, every argument of map.
NextMap ==
    \/ Construct(1)
    \/ MapPath(1, Paths, Offsets, Lengths, MapModes)
    \/ MapHandle(1, CallerHandles, Offsets, Lengths, MapModes)
    \/ Sync(1)
    \/ Unmap(1, TeardownFails)
    \/ Destroy(1, TeardownFails)

InitMap ==
    /\ regs = [r \in Regions |-> Unborn]
    /\ fds = [h \in Handles |->
                IF h \in UserHandles
                THEN [st |-> "open", path |-> "b"]
                ELSE [st |-> "free", path |-> ""]]
    /\ maps = <<>>
    /\ closes = [h \in Handles |-> 0]
    /\ unmaps = [m \in 1..MaxMaps |-> 0]
    /\ op = Op("none", 0, 0, "", INVALID_HANDLE_VALUE, 0, 0, "")
    /\ error = NoError
    /\ calls = <<>>
    /\ mapLimit = MaxMapsOne

SpecMap == InitMap /\ [][NextMap]_vars

\* ----------------------------------------------------------- vocabulary
IsMapCall(o) == o.name \in {"map_path", "map_handle"}
\* The fields of a region, without the model's note of its lifetime.
Fields(reg) ==
    [data_ |-> reg.data_, length_ |-> reg.length_,
     mapped_length_ |-> reg.mapped_length_, file_handle_ |-> reg.file_handle_,
     is_handle_internal_ |-> reg.is_handle_internal_]
\* mmap::size()
size(reg) == reg.length_
\* The file offset of the byte the OS shows at address p of a mapping.
FileOffsetOf(p) == maps[p.m].off + p.off
\* A map call that got as far as a successful OS mapping call.
MapSucceeded == IsMapCall(op) /\ error = NoError /\ Issued(calls, "mmap")
\* A map call that learnt the size of the file.
SizeObserved(o, cs) ==
    IsMapCall(o) /\ Issued(cs, "fstat") /\ TheCall(cs, "fstat").res = "ok"
ObservedSize(cs) == TheCall(cs, "fstat").len
IsEmpty(reg) ==
    /\ ~is_open(reg)
    /\ reg.data_ = nullptr
    /\ reg.length_ = 0
    /\ reg.mapped_length_ = 0

\* ------------------------------------------------------------------ C1
\* C1 (as claimed): whenever map(path, ...) or map(handle, ...) returns with
\* the error set, data, length, mapped_length, file_handle and the ownership
\* flag of the region equal their values before the call.
C1_FailedMapLeavesRegionUnchanged ==
    [][(IsMapCall(op') /\ error' # NoError)
         => Fields(regs'[op'.r]) = Fields(regs[op'.r])]_vars

\* ------------------------------------------------------------------ C2
\* C2: no ::close is ever issued on a descriptor the caller supplied: every
\* close names a descriptor that ::open handed to a region, and the caller's
\* descriptors stay open with no close counted on them.
C2_CallerHandleNeverClosed ==
    /\ \A h \in UserHandles : closes[h] = 0 /\ fds[h].st = "open"
    /\ \A i \in CallsOf(calls, "close") :
         calls[i].fd \in OwnHandles /\ fds[calls[i].fd].st # "free"

\* A region holding a caller's descriptor has been torn down (munmap, no
\* close) after some region had opened and closed a descriptor of its own.
C2_Witness ==
    /\ op.name \in {"unmap", "destroy"}
    /\ Len(calls) = 1
    /\ calls[1].call = "munmap"
    /\ \E h \in OwnHandles : closes[h] = 1

\* ------------------------------------------------------------------ C3
\* C3: no descriptor is closed more than once and no mapping is unmapped
\* more than once, whatever sequence of map, unmap, swap, moves and
\* destruction the regions go through.
C3_NoDoubleRelease ==
    /\ \A h \in Handles : closes[h] <= 1
    /\ \A m \in DOMAIN unmaps : unmaps[m] <= 1

\* A move assignment has torn down the destination's own mapping and
\* descriptor and handed it the source's mapping, which is still in place.
C3_Witness ==
    /\ op.name = "move_assign"
    /\ Len(calls) = 2
    /\ calls[1].call = "munmap"
    /\ calls[2].call = "close"
    /\ regs[op.r].data_ # nullptr
    /\ unmaps[regs[op.r].data_.m] = 0
    /\ IsEmpty(regs[op.other])

\* ------------------------------------------------------------------ C4
\* C4 (as claimed): once every constructed region is destroyed, each
\* descriptor that ::open handed out has been closed exactly once.
C4_OwnHandlesClosedAtEnd ==
    ((\A r \in Regions : regs[r].life # "alive") /\ (\E r \in Regions : regs[r].life = "dead"))
        => \A h \in OwnHandles : fds[h].st # "free" => closes[h] = 1

\* ------------------------------------------------------------------ C5
\* C5: after a map that succeeds with offset + n <= file_size, where n is the
\* requested length (file_size for the non-positive sentinel): size() = n,
\* data is the address ::mmap returned plus (offset - aligned offset), and
\* for every i in [0, size()) the address data + i lies in the mapping of
\* the mapped descriptor and shows the file byte at offset + i, which exists.
C5_SizeAndDataAfterMap ==
    MapSucceeded =>
      LET reg == regs[op.r]
          mm == TheCall(calls, "mmap")
          fsz == ObservedSize(calls)
          n == IF op.length <= 0 THEN fsz ELSE op.length
      IN  op.offset + n <= fsz =>
            /\ size(reg) = n
            /\ reg.data_ = PtrAdd(mm.addr, op.offset - mm.off)
            /\ \A i \in 0..(size(reg) - 1) :
                 LET p == PtrAdd(reg.data_, i)
                 IN  /\ p.m \in 1..Len(maps)
                     /\ p.off \in 0..(maps[p.m].len - 1)
                     /\ maps[p.m].fd = mm.fd
                     /\ FileOffsetOf(p) = op.offset + i
                     /\ op.offset + i < fsz

\* A positive length at an offset that is not page aligned, past the first
\* page, has been mapped.
C5_Witness ==
    /\ MapSucceeded
    /\ op.offset = PageSize + 1
    /\ op.length = 1
    /\ op.offset + op.length <= ObservedSize(calls)
    /\ size(regs[op.r]) = 1
    /\ regs[op.r].data_.off = 1

\* ------------------------------------------------------------------ C6
\* C6 (as claimed): whenever map returns without error, offset + size() <=
\* file_size, and the span handed to ::mmap ends at or before file_size.
C6_MappingInsideFile ==
    MapSucceeded =>
      LET mm == TheCall(calls, "mmap")
          fsz == ObservedSize(calls)
      IN  /\ op.offset + size(regs[op.r]) <= fsz
          /\ mm.off + mm.len <= fsz

\* ------------------------------------------------------------------ C7
\* C7: a map call (by path or by handle) that learns the file size and was
\* given a positive length with offset + length > file_size returns the
\* generic "invalid argument" error and issues no ::mmap; a region that was
\* empty before the call is empty after it.
C7_RangeCheck ==
    [][(/\ SizeObserved(op', calls')
        /\ op'.length > 0
        /\ op'.offset + op'.length > ObservedSize(calls'))
         => /\ error' = make_error_code("invalid_argument")
            /\ ~Issued(calls', "mmap")
            /\ IsEmpty(regs[op'.r]) => IsEmpty(regs'[op'.r])]_vars

\* The path-based map has opened the file, found the range to end one byte
\* past it and returned "invalid argument" with the region still empty.
C7_Witness ==
    /\ op.name = "map_path"
    /\ SizeObserved(op, calls)
    /\ op.length > 0
    /\ op.length <= ObservedSize(calls)
    /\ op.offset + op.length = ObservedSize(calls) + 1
    /\ error = make_error_code("invalid_argument")
    /\ IsEmpty(regs[op.r])

\* ------------------------------------------------------------------ C8
\* The OS as the regions see it.
OsState == <<fds, maps, closes, unmaps>>
\* error == std::errc::bad_file_descriptor
IsBadDescriptor(e) ==
    e = make_error_code("bad_file_descriptor") \/ e = SystemError("EBADF")

\* C8: map with an empty path returns the generic "invalid argument" error,
\* map with the invalid handle the generic "bad file descriptor" error; both
\* issue no OS call and change no field of any region.
C8_EmptyPathInvalidHandle ==
    [][/\ (op'.name = "map_path" /\ op'.path = "")
            => /\ error' = make_error_code("invalid_argument")
               /\ calls' = <<>>
               /\ regs' = regs
               /\ OsState' = OsState
       /\ (op'.name = "map_handle" /\ op'.handle = INVALID_HANDLE_VALUE)
            => /\ error' = make_error_code("bad_file_descriptor")
               /\ calls' = <<>>
               /\ regs' = regs
               /\ OsState' = OsState]_vars

\* map(INVALID_HANDLE_VALUE, ...) has returned on a region that holds a mapping.
C8_Witness ==
    /\ op.name = "map_handle"
    /\ op.handle = INVALID_HANDLE_VALUE
    /\ error = make_error_code("bad_file_descriptor")
    /\ calls = <<>>
    /\ regs[op.r].data_ # nullptr

\* ------------------------------------------------------------------ C9
\* The path-based map got the invalid handle from ::open.
OpenFailed ==
    /\ op.name = "map_path"
    /\ Issued(calls, "open")
    /\ TheCall(calls, "open").fd = INVALID_HANDLE_VALUE

\* C9 (as claimed): when ::open fails for a non-empty path, the error is the
\* bad-file-descriptor condition and neither ::fstat nor ::mmap is called.
C9_OpenFailureIsBadDescriptor ==
    OpenFailed =>
      /\ IsBadDescriptor(error)
      /\ ~Issued(calls, "fstat")
      /\ ~Issued(calls, "mmap")

\* C9 (amended): when ::open fails for a non-empty path, the error is the
\* errno ::open left, in the system category, and ::open is the only OS
\* call of the map.
C9_OpenFailureIsLastError ==
    OpenFailed =>
      /\ error = SystemError(TheCall(calls, "open").res)
      /\ Len(calls) = 1

\* ::open has failed with ENOENT and the map reports ENOENT.
C9_Witness ==
    /\ OpenFailed
    /\ TheCall(calls, "open").res = "ENOENT"
    /\ error = SystemError("ENOENT")

\* ----------------------------------------------------------------- C10
\* What a caller can see of a map call's outcome: the fields (the ownership
\* flag only shows once the region is open), the error, the OS calls and
\* the OS.
Outcome(w) ==
    [data_ |-> w.me.data_, length_ |-> w.me.length_,
     mapped_length_ |-> w.me.mapped_length_, file_handle_ |-> w.me.file_handle_,
     owned |-> is_open(w.me) /\ w.me.is_handle_internal_,
     error |-> w.error, calls |-> w.calls, fds |-> w.fds, maps |-> w.maps,
     closes |-> w.closes, unmaps |-> w.unmaps]
Fresh(r) == [World(r) EXCEPT !.me = EmptyRegion(FALSE)]

\* After unmap the region is empty, whatever ::munmap and ::close returned.
C10_EmptyAfterUnmap ==
    op.name = "unmap" =>
      /\ IsEmpty(regs[op.r])
      /\ regs[op.r].file_handle_ = INVALID_HANDLE_VALUE

\* After unmap, every map call gives what it gives a fresh region.
C10_MapsLikeFresh ==
    op.name = "unmap" =>
      /\ \A path \in Paths, offset \in Offsets, length \in Lengths,
            fail \in {"none", "open", "fstat", "mmap"} :
           Outcome(map_path(World(op.r), path, offset, length, "read_write",
                            OpenWant(fail), StatWant(fail), MmapWant(fail)))
             = Outcome(map_path(Fresh(op.r), path, offset, length, "read_write",
                                OpenWant(fail), StatWant(fail), MmapWant(fail)))
      /\ \A handle \in CallerHandles, offset \in Offsets, length \in Lengths,
            fail \in {"none", "fstat", "mmap"} :
           Outcome(map_handle(World(op.r), handle, offset, length, "read_write",
                              StatWant(fail), MmapWant(fail)))
             = Outcome(map_handle(Fresh(op.r), handle, offset, length, "read_write",
                                  StatWant(fail), MmapWant(fail)))

\* An unmap directly after an unmap of the same region issues no OS call
\* and changes nothing.
C10_SecondUnmapIsNoOp ==
    (op.name = "unmap" /\ op'.name = "unmap" /\ op'.r = op.r)
      => /\ calls' = <<>>
         /\ regs' = regs
         /\ OsState' = OsState

\* C10: unmap always leaves the region empty (is_open() false, data null,
\* length = mapped_length = 0, file_handle invalid) whether or not ::munmap
\* and ::close succeeded; a second unmap directly after it issues no OS call
\* and changes no field; and the region then maps like a fresh one.
C10_UnmapIdempotent ==
    /\ [](C10_EmptyAfterUnmap /\ C10_MapsLikeFresh)
    /\ [][C10_SecondUnmapIsNoOp]_vars

\* unmap has released a mapping and closed the region's own descriptor,
\* ::close reported an error, and the region is empty.
C10_Witness ==
    /\ op.name = "unmap"
    /\ Issued(calls, "munmap")
    /\ Issued(calls, "close")
    /\ TheCall(calls, "close").res = "EIO"
    /\ IsEmpty(regs[op.r])
    /\ regs[op.r].is_handle_internal_

\* ----------------------------------------------------------------- C11
IsMove(o) == o.name \in {"move_construct", "move_assign"} /\ o.r # o.other
\* The OS calls cs release nothing that region reg holds.
SparesResourcesOf(cs, reg) ==
    /\ \A i \in CallsOf(cs, "munmap") :
         reg.data_ = nullptr \/ cs[i].addr.m # reg.data_.m
    /\ \A i \in CallsOf(cs, "close") :
         ~is_open(reg) \/ ~reg.is_handle_internal_ \/ cs[i].fd # reg.file_handle_

\* C11: after a move construction or a move assignment from another region,
\* the destination has the data, length, mapped_length, file handle and
\* ownership flag the source had, the source is empty, and no ::munmap or
\* ::close of the move touches the mapping or the descriptor of the source.
C11_MoveTransfersState ==
    [][IsMove(op')
         => /\ Fields(regs'[op'.r]) = Fields(regs[op'.other])
            /\ IsEmpty(regs'[op'.other])
            /\ SparesResourcesOf(calls', regs[op'.other])
            /\ regs[op'.other].data_ # nullptr
                 => /\ unmaps'[regs[op'.other].data_.m] = unmaps[regs[op'.other].data_.m]
                    /\ maps'[regs[op'.other].data_.m] = maps[regs[op'.other].data_.m]
            /\ is_open(regs[op'.other])
                 => /\ closes'[regs[op'.other].file_handle_]
                         = closes[regs[op'.other].file_handle_]
                    /\ fds'[regs[op'.other].file_handle_] = fds[regs[op'.other].file_handle_]]_vars

\* A region has been move-constructed from a region that held a mapping of
\* a file it had opened itself; mapping and descriptor are still in place.
C11_Witness ==
    /\ op.name = "move_construct"
    /\ regs[op.r].data_ # nullptr
    /\ regs[op.r].is_handle_internal_
    /\ regs[op.r].file_handle_ \in OwnHandles
    /\ unmaps[regs[op.r].data_.m] = 0
    /\ closes[regs[op.r].file_handle_] = 0
    /\ IsEmpty(regs[op.other])

\* ----------------------------------------------------------------- C12
\* C12: a.swap(b) gives a every field b had and b every field a had, leaves
\* every other region and the OS alone and issues no OS call; a.swap(a)
\* changes nothing; and in every state swapping two regions twice gives the
\* state back.
C12_SwapExchanges ==
    [][op'.name = "swap"
         => /\ Fields(regs'[op'.r]) = Fields(regs[op'.other])
            /\ Fields(regs'[op'.other]) = Fields(regs[op'.r])
            /\ \A q \in Regions \ {op'.r, op'.other} : regs'[q] = regs[q]
            /\ op'.r = op'.other => regs' = regs
            /\ calls' = <<>>
            /\ OsState' = OsState]_vars

C12_SwapTwiceRestores ==
    \A r \in Regions, other \in Regions :
      (Alive(r) /\ Alive(other)) => swap(swap(regs, r, other), r, other) = regs

C12_Swap == C12_SwapExchanges /\ []C12_SwapTwiceRestores

\* Two regions have been swapped, one mapping a file it opened itself and
\* one mapping a descriptor of the caller.
C12_Witness ==
    /\ op.name = "swap"
    /\ op.r # op.other
    /\ regs[op.r].data_ # nullptr
    /\ regs[op.other].data_ # nullptr
    /\ regs[op.r].is_handle_internal_
    /\ ~regs[op.other].is_handle_internal_
    /\ regs[op.r].file_handle_ # regs[op.other].file_handle_

\* ----------------------------------------------------------------- C13
\* The content of the files: byte i of file "a" is i % 2, byte i of the
\* other file is (i + 1) % 2; past the end of the file there is no byte.
NoByte == -1
FileByte(path, i) ==
    IF i >= FileSize(path) THEN NoByte
    ELSE IF path = "a" THEN i % 2 ELSE (i + 1) % 2
\* The byte a read through pointer p yields.
ByteAt(p) == FileByte(fds[maps[p.m].fd].path, FileOffsetOf(p))
\* std::equal(a.begin(), a.end(), b.begin()) with begin() = data() and
\* end() = data() + size().
std_equal(a, b) ==
    \A i \in 0..(size(a) - 1) :
      ByteAt(PtrAdd(a.data_, i)) = ByteAt(PtrAdd(b.data_, i))
\* operator==(const mmap& a, const mmap& b)
Equal(a, b) ==
    IF is_mapped(a) /\ is_mapped(b)
    THEN size(a) = size(b) /\ std_equal(a, b)
    ELSE ~is_mapped(a) /\ ~is_mapped(b)
\* operator!=(const mmap& a, const mmap& b)
NotEqual(a, b) == ~Equal(a, b)
\* The region holds an active mapping.
HasMapping(reg) == reg.data_ # nullptr

\* C13: for any two live regions, when both hold an active mapping a == b
\* exactly if their sizes match and their bytes are the same; when neither
\* holds one, a == b; when exactly one holds one, a != b; and a != b is the
\* negation of a == b.
C13_EqualityByMappedContent ==
    \A r \in Regions, q \in Regions :
      (Alive(r) /\ Alive(q))
        => LET a == regs[r]
               b == regs[q]
           IN  /\ (HasMapping(a) /\ HasMapping(b))
                    => (Equal(a, b) <=> (size(a) = size(b) /\ std_equal(a, b)))
               /\ (~HasMapping(a) /\ ~HasMapping(b)) => Equal(a, b)
               /\ (HasMapping(a) # HasMapping(b)) => ~Equal(a, b)
               /\ NotEqual(a, b) <=> ~Equal(a, b)

\* ----------------------------------------------------------------- C14
\* C14: sync on a region that is not open reports bad_file_descriptor and
\* issues no OS call; on an open region with data it issues one ::msync over
\* the span the OS mapped (from the start of the mapping, mapped_length
\* bytes) and reports the platform error exactly when that call fails; and
\* sync never changes a field of the region.
C14_Sync ==
    [][op'.name = "sync"
         => LET me == regs[op'.r]
            IN  /\ regs' = regs
                /\ ~is_open(me)
                     => /\ IsBadDescriptor(error')
                        /\ calls' = <<>>
                /\ (is_open(me) /\ me.data_ = nullptr)
                     => /\ error' = NoError
                        /\ calls' = <<>>
                /\ (is_open(me) /\ me.data_ # nullptr)
                     => /\ Len(calls') = 1
                        /\ calls'[1].call = "msync"
                        /\ calls'[1].addr = [m |-> me.data_.m, off |-> 0]
                        /\ calls'[1].len = maps[me.data_.m].len
                        /\ calls'[1].len = me.mapped_length_
                        /\ error' = IF calls'[1].res = "ok" THEN NoError
                                    ELSE SystemError(calls'[1].res)]_vars

\* A sync of a mapping that begins inside a page has failed in the OS.
C14_Witness ==
    /\ op.name = "sync"
    /\ regs[op.r].data_ # nullptr
    /\ regs[op.r].data_.off > 0
    /\ Issued(calls, "msync")
    /\ error = SystemError("EIO")

\* ----------------------------------------------------------------- C15
\* The offset and length a map call hands to ::mmap are the page-aligned
\* offset and the requested length plus the distance to it.
C15_MmapArguments ==
    (IsMapCall(op) /\ Issued(calls, "mmap")) =>
      LET mm == TheCall(calls, "mmap")
          n == IF op.length <= 0 THEN ObservedSize(calls) ELSE op.length
      IN  /\ mm.off % PageSize = 0
          /\ mm.off <= op.offset
          /\ op.offset - mm.off < PageSize
          /\ mm.len = (op.offset - mm.off) + n
\* A region with an active mapping keeps the distance between the mapping
\* start and data in mapped_length - length.
C15_FieldsOfMapping ==
    \A r \in Regions :
      (Alive(r) /\ regs[r].data_ # nullptr) =>
        LET reg == regs[r]
            mp == maps[reg.data_.m]
        IN  /\ mp # Released
            /\ mp.off % PageSize = 0
            /\ reg.mapped_length_ - reg.length_ = FileOffsetOf(reg.data_) - mp.off
            /\ reg.mapped_length_ - reg.length_ \in 0..(PageSize - 1)
            /\ reg.mapped_length_ = mp.len
\* ::munmap and ::msync get the address ::mmap returned and the length it
\* was given.
C15_ReleaseArguments ==
    \A i \in CallsOf(calls', "munmap") \cup CallsOf(calls', "msync") :
      /\ regs[op'.r].data_ # nullptr
      /\ calls'[i].addr = [m |-> regs[op'.r].data_.m, off |-> 0]
      /\ maps[calls'[i].addr.m] # Released
      /\ calls'[i].len = maps[calls'[i].addr.m].len

\* C15: the offset given to ::mmap is the largest multiple of the page size
\* not above the requested offset and the length given is the requested
\* length plus (offset - aligned offset), which is in [0, page size); every
\* region with an active mapping has mapped_length - length = offset -
\* aligned offset; and ::munmap and ::msync are called with the address
\* ::mmap returned and the length ::mmap was given.
C15_PageAlignment ==
    /\ [](C15_MmapArguments /\ C15_FieldsOfMapping)
    /\ [][C15_ReleaseArguments]_vars

\* A mapping that begins inside a page has been unmapped: ::munmap got the
\* page-aligned start and a length one above the size of the region.
C15_Witness ==
    /\ op.name = "unmap"
    /\ Issued(calls, "munmap")
    /\ TheCall(calls, "munmap").res = "ok"
    /\ TheCall(calls, "munmap").addr.off = 0
    /\ TheCall(calls, "munmap").len = MaxLen + 1
    /\ maps[TheCall(calls, "munmap").addr.m] = Released

\* ----------------------------------------------------------------- C16
\* C16: in every state, for every live region, data is non-null exactly
\* when file_handle is not the invalid sentinel; when data is null, length
\* and mapped_length are zero; when data is non-null, length <= mapped_length.
C16_DataIffHandle ==
    \A r \in Regions :
      Alive(r) =>
        LET reg == regs[r]
        IN  /\ (reg.data_ # nullptr) <=> (reg.file_handle_ # INVALID_HANDLE_VALUE)
            /\ reg.data_ = nullptr => (reg.length_ = 0 /\ reg.mapped_length_ = 0)
            /\ reg.data_ # nullptr => reg.length_ <= reg.mapped_length_

\* ----------------------------------------------------------------- C17
AllDestroyed ==
    /\ \A r \in Regions : regs[r].life # "alive"
    /\ \E r \in Regions : regs[r].life = "dead"
\* Some live region holds descriptor h as its own.
OwnedBySomeRegion(rs, h) ==
    \E r \in Regions :
      rs[r].life = "alive" /\ rs[r].file_handle_ = h /\ rs[r].is_handle_internal_

\* Once every region is destroyed each mapping ::mmap created has been
\* unmapped exactly once.
C17_MappingsUnmappedAtEnd ==
    AllDestroyed => \A m \in 1..Len(maps) : unmaps[m] = 1 /\ maps[m] = Released
\* map(handle, ...) on a region that holds a mapping of a descriptor it owns leaves that
\* descriptor closed or still owned by the region, so that it is closed
\* with the region.
C17_MapKeepsOwnedHandle ==
    (/\ op'.name = "map_handle"
     /\ regs[op'.r].data_ # nullptr
     /\ is_open(regs[op'.r])
     /\ regs[op'.r].is_handle_internal_)
      => LET h == regs[op'.r].file_handle_
         IN  fds[h].st = "open" => (fds'[h].st = "closed" \/ OwnedBySomeRegion(regs', h))

\* C17: every mapping a region creates is unmapped exactly once by the time
\* all regions are destroyed, also when map(handle, ...) is called on a
\* region that already holds a mapping, and the descriptor that region
\* owned before the second map is still closed.
C17_NoLeakOnRemap ==
    /\ []C17_MappingsUnmappedAtEnd
    /\ [][C17_MapKeepsOwnedHandle]_vars

\* ----------------------------------------------------------------- C18
\* C18: map(path, ...) with a non-empty path on a region that is already
\* open issues no OS call, opens no file, leaves every field of the region
\* and the OS state as they were, and returns with the error cleared,
\* whatever path, offset and length it is given.
C18_MapPathOnOpenRegionIsNoOp ==
    [][(op'.name = "map_path" /\ op'.path # "" /\ is_open(regs[op'.r]))
         => /\ calls' = <<>>
            /\ regs' = regs
            /\ OsState' = OsState
            /\ error' = NoError]_vars

\* map(path, ...) has returned without an error and without an OS call on a
\* region that maps a descriptor of the caller at another offset and with
\* another length.
C18_Witness ==
    /\ op.name = "map_path"
    /\ op.path = "a"
    /\ calls = <<>>
    /\ error = NoError
    /\ regs[op.r].data_ # nullptr
    /\ regs[op.r].file_handle_ \in UserHandles
    /\ FileOffsetOf(regs[op.r].data_) # op.offset
    /\ size(regs[op.r]) # op.length

\* ----------------------------------------------------------------- C19
\* The OS calls cs release what region reg holds, each resource once: one
\* ::munmap of its whole mapping if it has one, then one ::close of its
\* descriptor if it owns it, and nothing else.
TearsDown(cs, reg) ==
    LET unmapsIt == is_open(reg) /\ reg.data_ # nullptr
        closesIt == is_open(reg) /\ reg.is_handle_internal_
    IN  /\ Cardinality(CallsOf(cs, "munmap")) = IF unmapsIt THEN 1 ELSE 0
        /\ Cardinality(CallsOf(cs, "close")) = IF closesIt THEN 1 ELSE 0
        /\ Len(cs) = Cardinality(CallsOf(cs, "munmap")) + Cardinality(CallsOf(cs, "close"))
        /\ unmapsIt => /\ cs[1].call = "munmap"
                       /\ cs[1].addr = [m |-> reg.data_.m, off |-> 0]
                       /\ cs[1].len = reg.mapped_length_
        /\ closesIt => /\ cs[Len(cs)].call = "close"
                       /\ cs[Len(cs)].fd = reg.file_handle_

\* C19: a move assignment from another region releases what the destination
\* held before it takes the source's fields: the destination's mapping is
\* unmapped once and its descriptor, if owned, closed once, the counters of
\* those resources go up by one, nothing of the source is released, and the
\* destination ends with the source's fields; a self-move-assignment changes
\* nothing and issues no OS call.
C19_MoveAssignTearsDownFirst ==
    [][op'.name = "move_assign"
         => LET dst == regs[op'.r]
                src == regs[op'.other]
            IN  IF op'.r = op'.other
                THEN /\ regs' = regs
                     /\ calls' = <<>>
                     /\ OsState' = OsState
                ELSE /\ TearsDown(calls', dst)
                     /\ (is_open(dst) /\ dst.data_ # nullptr)
                          => /\ unmaps'[dst.data_.m] = unmaps[dst.data_.m] + 1
                             /\ unmaps'[dst.data_.m] = 1
                             /\ maps'[dst.data_.m] = Released
                     /\ (is_open(dst) /\ dst.is_handle_internal_)
                          => /\ closes'[dst.file_handle_] = closes[dst.file_handle_] + 1
                             /\ closes'[dst.file_handle_] = 1
                     /\ SparesResourcesOf(calls', src)
                     /\ src.data_ # nullptr
                          => /\ unmaps'[src.data_.m] = unmaps[src.data_.m]
                             /\ maps'[src.data_.m] = maps[src.data_.m]
                     /\ (is_open(src) /\ src.is_handle_internal_)
                          => /\ closes'[src.file_handle_] = closes[src.file_handle_]
                             /\ fds'[src.file_handle_] = fds[src.file_handle_]
                     /\ Fields(regs'[op'.r]) = Fields(src)]_vars

\* A region that mapped a descriptor it did not own has been move-assigned a
\* region that maps a file it opened itself: the only OS call was the
\* ::munmap of the destination's mapping, and the source's mapping and
\* descriptor are now the destination's, untouched.
C19_Witness ==
    /\ op.name = "move_assign"
    /\ op.r # op.other
    /\ Len(calls) = 1
    /\ calls[1].call = "munmap"
    /\ calls[1].res = "ok"
    /\ regs[op.r].data_ # nullptr
    /\ regs[op.r].data_.m # calls[1].addr.m
    /\ regs[op.r].is_handle_internal_
    /\ maps[regs[op.r].data_.m] # Released
    /\ fds[regs[op.r].file_handle_].st = "open"

\* ----------------------------------------------------------------- C20
\* C20: the protection a map call asks ::mmap for follows the access mode,
\* read-only protection for read_only and read and write protection for
\* read_write, and the file is opened read-only for read_only and
\* read-write for read_write.
C20_ProtectionFollowsMode ==
    IsMapCall(op) =>
      /\ \A i \in CallsOf(calls, "mmap") :
           calls[i].flag = IF op.mode = "read_only" THEN "PROT_READ"
                           ELSE "PROT_READ|PROT_WRITE"
      /\ \A i \in CallsOf(calls, "open") :
           calls[i].flag = IF op.mode = "read_only" THEN "O_RDONLY" ELSE "O_RDWR"

====
